---- MODULE Spec2Model ----
(***************************************************************************)
(* A model of csv_file/main.py: the condition parser, the aggregate-spec   *)
(* parser, the row filter, the aggregator and the command-line driver.     *)
(*                                                                         *)
(* Text is a sequence of one-character strings.  A Python value is a       *)
(* record [t, s, num, den]: t is "str", "int", "float" or "none"; s is the *)
(* text of a str; num/den is the value of an int (den = 1) or of a float.  *)
(* Floats are exact rationals here: the inputs are short decimals, which   *)
(* Python's float and its comparisons with int order the same way.  The    *)
(* alphabets leave out signs, exponents, underscores, "inf" and "nan", so  *)
(* int() and float() are modelled on digits, "." and surrounding blanks.   *)
(*                                                                         *)
(* Four specifications: SpecParse calls the two parsers on an expression,  *)
(* SpecFilter calls filter_data on a table and again on its result,        *)
(* SpecAggregate calls aggregate_data on a table, and Spec is a run of     *)
(* main from the parsed command line to the exit of the process.           *)
(***************************************************************************)
EXTENDS Integers, Sequences, FiniteSets, TLC

VARIABLES pc, file, data, where, aggregate, cond, aggSpec,
          filtered, refiltered, result, stdout, stderr, exitCode, aggParsed

vars == <<pc, file, data, where, aggregate, cond, aggSpec,
          filtered, refiltered, result, stdout, stderr, exitCode, aggParsed>>

-----------------------------------------------------------------------------
(* Bounds of the model. *)

\* longest expression handed to the two parsers
MaxLen == 4
\* most "="-separated pieces of an aggregate expression
MaxParts == 3
\* most rows of a table
MaxRows == 3

-----------------------------------------------------------------------------
(* Text. *)

Str(alphabet, n) == UNION {[1..k -> alphabet] : k \in 0..n}

Contains(s, c) == \E i \in 1..Len(s) : s[i] = c

Count(s, c) == Cardinality({i \in 1..Len(s) : s[i] = c})

\* str.split(sep) with a one-character separator: empty segments are kept
Split(s, c) ==
    LET F[i \in 0..Len(s)] ==
          IF i = 0 THEN <<<<>>>>
          ELSE LET prev == F[i-1]
               IN IF s[i] = c
                     THEN Append(prev, <<>>)
                     ELSE [prev EXCEPT ![Len(prev)] = Append(@, s[i])]
    IN F[Len(s)]

\* str.strip() of blanks, as int() and float() apply it to their argument
Strip(s) ==
    LET keep == {i \in 1..Len(s) : s[i] # " "}
    IN IF keep = {} THEN <<>>
       ELSE LET lo == CHOOSE i \in keep : \A j \in keep : i <= j
                hi == CHOOSE i \in keep : \A j \in keep : j <= i
            IN SubSeq(s, lo, hi)

Digits == {"0", "1", "2", "3", "4", "5", "6", "7", "8", "9"}

DigitVal(c) ==
    CASE c = "0" -> 0 [] c = "1" -> 1 [] c = "2" -> 2 [] c = "3" -> 3
      [] c = "4" -> 4 [] c = "5" -> 5 [] c = "6" -> 6 [] c = "7" -> 7
      [] c = "8" -> 8 [] c = "9" -> 9

DigitChar(d) == CHOOSE c \in Digits : DigitVal(c) = d

\* code points, for the lexicographic order of str
Ord(c) ==
    CASE c = " " -> 32 [] c = "." -> 46 [] c \in Digits -> 48 + DigitVal(c)
      [] c = "<" -> 60 [] c = "=" -> 61 [] c = ">" -> 62
      [] c = "A" -> 65 [] c = "N" -> 78
      [] c = "a" -> 97 [] c = "b" -> 98 [] c = "e" -> 101 [] c = "g" -> 103
      [] c = "i" -> 105 [] c = "m" -> 109 [] c = "n" -> 110 [] c = "o" -> 111
      [] c = "s" -> 115 [] c = "u" -> 117 [] c = "v" -> 118 [] c = "x" -> 120

RECURSIVE Pow10(_)
Pow10(k) == IF k = 0 THEN 1 ELSE 10 * Pow10(k - 1)

RECURSIVE DigitsToNat(_)
DigitsToNat(s) ==
    IF s = <<>> THEN 0
    ELSE 10 * DigitsToNat(SubSeq(s, 1, Len(s) - 1)) + DigitVal(s[Len(s)])

RECURSIVE NatToStr(_)
NatToStr(n) ==
    IF n < 10 THEN <<DigitChar(n)>>
    ELSE NatToStr(n \div 10) \o <<DigitChar(n % 10)>>

-----------------------------------------------------------------------------
(* Python values and exceptions. *)

PyStr(s) == [t |-> "str", s |-> s, num |-> 0, den |-> 1]
PyInt(n) == [t |-> "int", s |-> <<>>, num |-> n, den |-> 1]
PyFloat(n, d) == [t |-> "float", s |-> <<>>, num |-> n, den |-> d]
PyNone == [t |-> "none", s |-> <<>>, num |-> 0, den |-> 1]

IsNum(v) == v.t \in {"int", "float"}

NoExc == [type |-> "", msg |-> "", arg |-> <<>>]
Exc(type, msg, arg) == [type |-> type, msg |-> msg, arg |-> arg]

\* int(text) succeeds
IntOk(s) ==
    LET u == Strip(s) IN Len(u) > 0 /\ \A i \in 1..Len(u) : u[i] \in Digits

\* float(text) succeeds
FloatOk(s) ==
    LET u == Strip(s)
    IN /\ \A i \in 1..Len(u) : u[i] \in Digits \cup {"."}
       /\ Count(u, ".") <= 1
       /\ \E i \in 1..Len(u) : u[i] \in Digits

IntOf(s) == PyInt(DigitsToNat(Strip(s)))

FloatOf(s) ==
    LET u == Strip(s)
        parts == Split(u, ".")
        frac == IF Len(parts) = 2 THEN parts[2] ELSE <<>>
    IN PyFloat(DigitsToNat(parts[1] \o frac), Pow10(Len(frac)))

\* float(x) of a numeric x
ToFloat(v) == PyFloat(v.num, v.den)

\* int(x) of a numeric x: truncation
Trunc(v) == PyInt(v.num \div v.den)

RECURSIVE StripZeros(_)
StripZeros(s) ==
    IF Len(s) > 1 /\ s[Len(s)] = "0" THEN StripZeros(SubSeq(s, 1, Len(s) - 1))
    ELSE s

RECURSIVE FracDigits(_, _)
FracDigits(f, d) ==
    IF d = 1 THEN <<>>
    ELSE FracDigits(f \div 10, d \div 10) \o <<DigitChar(f % 10)>>

\* str(x)
PyToStr(v) ==
    CASE v.t = "str" -> v.s
      [] v.t = "int" -> NatToStr(v.num)
      [] v.t = "none" -> <<"N", "o", "n", "e">>
      [] v.t = "float" ->
           LET fd == FracDigits(v.num % v.den, v.den)
           IN NatToStr(v.num \div v.den) \o <<".">>
                \o (IF fd = <<>> THEN <<"0">> ELSE StripZeros(fd))

RECURSIVE StrLess(_, _)
StrLess(a, b) ==
    IF b = <<>> THEN FALSE
    ELSE IF a = <<>> THEN TRUE
    ELSE IF a[1] # b[1] THEN Ord(a[1]) < Ord(b[1])
    ELSE StrLess(Tail(a), Tail(b))

\* x < y and x > y are defined between two numbers and between two strs
Comparable(x, y) == (IsNum(x) /\ IsNum(y)) \/ (x.t = "str" /\ y.t = "str")

PyLess(x, y) ==
    IF x.t = "str" THEN StrLess(x.s, y.s) ELSE x.num * y.den < y.num * x.den

PyEq(x, y) ==
    IF IsNum(x) /\ IsNum(y) THEN x.num * y.den = y.num * x.den
    ELSE x.t = y.t /\ x.s = y.s

-----------------------------------------------------------------------------
(* parse_where_condition *)

\* the operators tried in the opposite order
operatorsReversed == <<"=", "<", ">">>

\* operators = [">", "<", "="]
operators == <<">", "<", "=">>

\* value = float(value) if "." in value else int(value), ValueError passed
CoerceText(s) ==
    IF Contains(s, ".")
       THEN IF FloatOk(s) THEN FloatOf(s) ELSE PyStr(s)
       ELSE IF IntOk(s) THEN IntOf(s) ELSE PyStr(s)

WhereRet(exc, column, op, value) ==
    [exc |-> exc, column |-> column, op |-> op, value |-> value]

RECURSIVE ParseWhereFrom(_, _)
ParseWhereFrom(condition, i) ==
    IF i > Len(operators)
       THEN WhereRet(Exc("ValueError", "Invalid condition format", condition),
                     <<>>, "", PyNone)
    ELSE LET op == operators[i]
             parts == Split(condition, op)
         IN IF Contains(condition, op) /\ Len(parts) = 2
               THEN WhereRet(NoExc, parts[1], op, CoerceText(parts[2]))
               ELSE ParseWhereFrom(condition, i + 1)

\* a parser that trims the column name
parse_where_conditionStripped(condition) ==
    LET r == ParseWhereFrom(condition, 1) IN [r EXCEPT !.column = Strip(@)]

parse_where_condition(condition) == ParseWhereFrom(condition, 1)

-----------------------------------------------------------------------------
(* parse_aggregate *)

AggRet(exc, column, func) == [exc |-> exc, column |-> column, func |-> func]

functions == {<<"a", "v", "g">>, <<"m", "i", "n">>, <<"m", "a", "x">>}

parse_aggregate(agg) ==
    IF ~Contains(agg, "=")
       THEN AggRet(Exc("ValueError", "Invalid aggregate format", agg), <<>>, <<>>)
    ELSE LET parts == Split(agg, "=")
         IN IF Len(parts) # 2
               THEN AggRet(Exc("ValueError", "too many values to unpack (expected 2)",
                               <<>>), <<>>, <<>>)
            ELSE IF parts[2] \notin functions
               THEN AggRet(Exc("ValueError", "Unsupported aggregate function",
                               parts[2]), <<>>, <<>>)
            ELSE AggRet(NoExc, parts[1], parts[2])

-----------------------------------------------------------------------------
(* Optional[str] arguments *)

None == [some |-> FALSE, s |-> <<>>]
Some(s) == [some |-> TRUE, s |-> s]
\* "if not x": None and the empty string are both false
Truthy(o) == o.some /\ o.s # <<>>

-----------------------------------------------------------------------------
(* filter_data *)

\* row_value = float(row_value) if isinstance(row_value, str) and "." in
\* row_value else int(row_value), with ValueError and TypeError passed
CoerceCell(v) ==
    IF v.t = "str" /\ Contains(v.s, ".")
       THEN IF FloatOk(v.s) THEN FloatOf(v.s) ELSE v
    ELSE CASE v.t = "str" -> IF IntOk(v.s) THEN IntOf(v.s) ELSE v
           [] v.t = "int" -> v
           [] v.t = "float" -> Trunc(v)
           [] v.t = "none" -> v

FilterRet(exc, rows, coerced) == [exc |-> exc, rows |-> rows, coerced |-> coerced]

\* the if/elif chain of the loop body, once the comparison is defined
Keeps(op, row_value, value) ==
    CASE op = ">" -> PyLess(value, row_value)
      [] op = "<" -> PyLess(row_value, value)
      [] op = "=" -> IF value.t = "str" THEN PyToStr(row_value) = value.s
                     ELSE PyEq(row_value, value)

\* the loop over the rows; coerced lists the row_value of each visited row
RECURSIVE FilterRows(_, _, _, _, _)
FilterRows(rows, i, c, acc, coerced) ==
    IF i > Len(rows) THEN FilterRet(NoExc, acc, coerced)
    ELSE IF c.column \notin DOMAIN rows[i]
       THEN FilterRet(Exc("KeyError", "", c.column), <<>>, coerced)
    ELSE LET row_value == CoerceCell(rows[i][c.column])
             seen == Append(coerced, row_value)
         IN IF c.op \in {">", "<"} /\ ~Comparable(row_value, c.value)
               THEN FilterRet(Exc("TypeError", "not supported between instances",
                                  <<c.op>>), <<>>, seen)
            ELSE FilterRows(rows, i + 1, c,
                            IF Keeps(c.op, row_value, c.value)
                               THEN Append(acc, rows[i]) ELSE acc,
                            seen)

\* a loop that starts at the second row
filter_dataFromSecond(rows, condition) ==
    IF ~Truthy(condition) THEN FilterRet(NoExc, rows, <<>>)
    ELSE LET c == parse_where_condition(condition.s)
         IN IF c.exc # NoExc THEN FilterRet(c.exc, <<>>, <<>>)
            ELSE FilterRows(rows, 2, c, <<>>, <<>>)

filter_data(rows, condition) ==
    IF ~Truthy(condition) THEN FilterRet(NoExc, rows, <<>>)
    ELSE LET c == parse_where_condition(condition.s)
         IN IF c.exc # NoExc THEN FilterRet(c.exc, <<>>, <<>>)
            ELSE FilterRows(rows, 1, c, <<>>, <<>>)

-----------------------------------------------------------------------------
(* aggregate_data *)

AggregateRet(exc, rows) == [exc |-> exc, rows |-> rows]

\* float(row[column]) succeeds
NumericCell(v) == IsNum(v) \/ (v.t = "str" /\ FloatOk(v.s))

CellFloat(v) == IF v.t = "str" THEN FloatOf(v.s) ELSE ToFloat(v)

\* a loop that skips the rows whose value float() rejects
RECURSIVE AggValuesSkipping(_, _, _, _)
AggValuesSkipping(rows, i, column, values) ==
    IF i > Len(rows) THEN [exc |-> NoExc, values |-> values]
    ELSE IF column \notin DOMAIN rows[i]
       THEN [exc |-> Exc("KeyError", "", column), values |-> <<>>]
    ELSE AggValuesSkipping(rows, i + 1, column,
                           IF NumericCell(rows[i][column])
                              THEN Append(values, CellFloat(rows[i][column]))
                              ELSE values)

\* the loop collecting values; a failing float() ends it with the error
RECURSIVE AggValues(_, _, _, _)
AggValues(rows, i, column, values) ==
    IF i > Len(rows) THEN [exc |-> NoExc, values |-> values]
    ELSE IF column \notin DOMAIN rows[i]
       THEN [exc |-> Exc("KeyError", "", column), values |-> <<>>]
    ELSE IF ~NumericCell(rows[i][column])
       THEN [exc |-> Exc("ValueError", "Cannot aggregate non-numeric column", column),
             values |-> <<>>]
    ELSE AggValues(rows, i + 1, column, Append(values, CellFloat(rows[i][column])))

RECURSIVE Sum(_)
Sum(values) ==
    IF values = <<>> THEN PyFloat(0, 1)
    ELSE LET h == values[1]
             r == Sum(Tail(values))
         IN PyFloat(h.num * r.den + r.num * h.den, h.den * r.den)

RECURSIVE Min(_)
Min(values) ==
    IF Len(values) = 1 THEN values[1]
    ELSE LET r == Min(Tail(values))
         IN IF PyLess(r, values[1]) THEN r ELSE values[1]

RECURSIVE Max(_)
Max(values) ==
    IF Len(values) = 1 THEN values[1]
    ELSE LET r == Max(Tail(values))
         IN IF PyLess(values[1], r) THEN r ELSE values[1]

\* a result always stored under the key "avg"
StatisticAvgKey(func, values) ==
    LET value == CASE func = <<"a", "v", "g">> ->
                        LET s == Sum(values) IN PyFloat(s.num, s.den * Len(values))
                   [] func = <<"m", "i", "n">> -> Min(values)
                   [] func = <<"m", "a", "x">> -> Max(values)
    IN <<[k \in {<<"a", "v", "g">>} |-> value]>>

\* the result dict and the list holding it
Statistic(func, values) ==
    LET value == CASE func = <<"a", "v", "g">> ->
                        LET s == Sum(values) IN PyFloat(s.num, s.den * Len(values))
                   [] func = <<"m", "i", "n">> -> Min(values)
                   [] func = <<"m", "a", "x">> -> Max(values)
    IN <<[k \in {func} |-> value]>>

aggregate_data(rows, agg) ==
    IF ~Truthy(agg) THEN AggregateRet(NoExc, <<>>)
    ELSE LET p == parse_aggregate(agg.s)
         IN IF p.exc # NoExc THEN AggregateRet(p.exc, <<>>)
            ELSE LET v == AggValues(rows, 1, p.column, <<>>)
                 IN IF v.exc # NoExc THEN AggregateRet(v.exc, <<>>)
                    ELSE IF v.values = <<>> THEN AggregateRet(NoExc, <<>>)
                    ELSE AggregateRet(NoExc, Statistic(p.func, v.values))

-----------------------------------------------------------------------------
(* Inputs. *)

ExprAlphabet == {"a", "1", ".", " ", ">", "<", "="}

\* every expression of up to MaxLen characters
Exprs == Str(ExprAlphabet, MaxLen)

AggPieces == {<<>>, <<"a">>, <<"a", "v", "g">>, <<"m", "i", "n">>,
              <<"m", "a", "x">>, <<"A", "v", "g">>, <<"s", "u", "m">>}

RECURSIVE Join(_, _)
Join(parts, sep) ==
    IF Len(parts) = 1 THEN parts[1]
    ELSE parts[1] \o sep \o Join(Tail(parts), sep)

\* aggregate expressions of up to MaxParts pieces joined by "="
AggExprs == {Join(ps, <<"=">>) : ps \in UNION {[1..k -> AggPieces] : k \in 1..MaxParts}}

\* the columns of every row of a table
Columns == {<<"a">>}

CellTexts == {<<>>, <<".">>, <<"a">>, <<"1">>, <<"2">>, <<"1", ".", "5">>}

TextCells == {PyStr(s) : s \in CellTexts}

\* cells as the csv reader yields them, and as a caller may pass them
Cells == TextCells \cup {PyInt(2), PyFloat(15, 10), PyNone}

Tables(cells) ==
    UNION {[1..k -> [Columns -> cells]] : k \in 0..MaxRows}

WhereColumns == {<<"a">>, <<"b">>}
WhereOps == {<<>>, <<">">>, <<"<">>, <<"=">>, <<">", "=">>}
WhereTexts == {<<>>, <<"a">>, <<"1">>, <<"1", ".", "5">>, <<"2", ".">>}

WhereExprs == {c \o o \o v : c \in WhereColumns, o \in WhereOps, v \in WhereTexts}

AggregateExprs ==
    {c \o <<"=">> \o f : c \in WhereColumns,
                         f \in functions \cup {<<"s", "u", "m">>}}
      \cup {<<"a">>, <<"a", "=", "a", "=", "m", "a", "x">>}

Optional(S) == {None} \cup {Some(s) : s \in S}

\* the driver's command lines
MainWheres == Optional({c \o o \o v : c \in WhereColumns,
                                      o \in {<<>>, <<">">>, <<"=">>},
                                      v \in {<<"a">>, <<"1">>}} \cup {<<>>})
MainAggregates == Optional(AggregateExprs \cup {<<>>})

-----------------------------------------------------------------------------
(* State not in use by a specification. *)

NoFile == [state |-> "none", rows |-> <<>>]
NoCond == WhereRet(NoExc, <<>>, "", PyNone)
NoAggSpec == AggRet(NoExc, <<>>, <<>>)
NoFilter == FilterRet(NoExc, <<>>, <<>>)
NoResult == AggregateRet(NoExc, <<>>)

-----------------------------------------------------------------------------
(* The parsers, called on an expression. *)

InitParse ==
    /\ pc \in {"parse_where_condition", "parse_aggregate"}
    /\ file = NoFile /\ data = <<>>
    /\ IF pc = "parse_where_condition"
          THEN where \in {Some(s) : s \in Exprs} /\ aggregate = None
          ELSE where = None /\ aggregate \in {Some(s) : s \in AggExprs}
    /\ cond = NoCond /\ aggSpec = NoAggSpec
    /\ filtered = NoFilter /\ refiltered = NoFilter /\ result = NoResult
    /\ stdout = <<>> /\ stderr = <<>> /\ exitCode = -1 /\ aggParsed = FALSE

CallParseWhere ==
    /\ pc = "parse_where_condition"
    /\ cond' = parse_where_condition(where.s)
    /\ pc' = "parsed_where"
    /\ UNCHANGED <<file, data, where, aggregate, aggSpec, filtered, refiltered,
                   result, stdout, stderr, exitCode, aggParsed>>

CallParseAggregate ==
    /\ pc = "parse_aggregate"
    /\ aggSpec' = parse_aggregate(aggregate.s)
    /\ pc' = "parsed_aggregate"
    /\ UNCHANGED <<file, data, where, aggregate, cond, filtered, refiltered,
                   result, stdout, stderr, exitCode, aggParsed>>

NextParse == CallParseWhere \/ CallParseAggregate

SpecParse == InitParse /\ [][NextParse]_vars

-----------------------------------------------------------------------------
(* filter_data, called on a table and called again on its own result. *)

InitFilter ==
    /\ pc = "filter_data"
    /\ data \in Tables(Cells)
    /\ where \in Optional(WhereExprs \cup {<<>>})
    /\ file = NoFile /\ aggregate = None
    /\ cond = NoCond /\ aggSpec = NoAggSpec
    /\ filtered = NoFilter /\ refiltered = NoFilter /\ result = NoResult
    /\ stdout = <<>> /\ stderr = <<>> /\ exitCode = -1 /\ aggParsed = FALSE

CallFilter ==
    /\ pc = "filter_data"
    /\ filtered' = filter_data(data, where)
    /\ pc' = "filtered"
    /\ UNCHANGED <<file, data, where, aggregate, cond, aggSpec, refiltered,
                   result, stdout, stderr, exitCode, aggParsed>>

CallFilterAgain ==
    /\ pc = "filtered"
    /\ filtered.exc = NoExc
    /\ refiltered' = filter_data(filtered.rows, where)
    /\ pc' = "refiltered"
    /\ UNCHANGED <<file, data, where, aggregate, cond, aggSpec, filtered,
                   result, stdout, stderr, exitCode, aggParsed>>

NextFilter == CallFilter \/ CallFilterAgain

SpecFilter == InitFilter /\ [][NextFilter]_vars

-----------------------------------------------------------------------------
(* aggregate_data, called on a table. *)

InitAggregate ==
    /\ pc = "aggregate_data"
    /\ data \in Tables(Cells)
    /\ aggregate \in Optional(AggregateExprs \cup {<<>>})
    /\ file = NoFile /\ where = None
    /\ cond = NoCond /\ aggSpec = NoAggSpec
    /\ filtered = NoFilter /\ refiltered = NoFilter /\ result = NoResult
    /\ stdout = <<>> /\ stderr = <<>> /\ exitCode = -1 /\ aggParsed = FALSE

CallAggregate ==
    /\ pc = "aggregate_data"
    /\ result' = aggregate_data(data, aggregate)
    /\ pc' = "aggregated"
    /\ UNCHANGED <<file, data, where, aggregate, cond, aggSpec, filtered,
                   refiltered, stdout, stderr, exitCode, aggParsed>>

NextAggregate == CallAggregate

SpecAggregate == InitAggregate /\ [][NextAggregate]_vars

-----------------------------------------------------------------------------
(* main: read, filter, then aggregate or display. *)

Init ==
    /\ pc = "read_csv"
    /\ file \in {[state |-> "exists", rows |-> r] : r \in Tables(TextCells)}
                  \cup {[state |-> s, rows |-> <<>>] : s \in {"missing", "unreadable"}}
    /\ where \in MainWheres
    /\ aggregate \in MainAggregates
    /\ data = <<>>
    /\ cond = NoCond /\ aggSpec = NoAggSpec
    /\ filtered = NoFilter /\ refiltered = NoFilter /\ result = NoResult
    /\ stdout = <<>> /\ stderr = <<>> /\ exitCode = -1 /\ aggParsed = FALSE

\* sys.exit(1) after a message on sys.stderr
Fail(message) ==
    /\ stderr' = Append(stderr, message)
    /\ exitCode' = 1
    /\ pc' = "exit"

\* an exception no handler of main catches: the interpreter prints the
\* traceback on sys.stderr and exits with status 1
Uncaught(exc) == Fail("Traceback " \o exc.type)

ReadCsv ==
    /\ pc = "read_csv"
    /\ IF file.state = "missing"
          THEN Fail("Error: File not found") /\ UNCHANGED data
       ELSE IF file.state = "unreadable"
          THEN Fail("Error reading file") /\ UNCHANGED data
       ELSE /\ data' = file.rows
            /\ pc' = "filter_data"
            /\ UNCHANGED <<stderr, exitCode>>
    /\ UNCHANGED <<file, where, aggregate, cond, aggSpec, filtered, refiltered,
                   result, stdout, aggParsed>>

\* a handler that reports the filter error and goes on
FilterWithoutExit ==
    /\ pc = "filter_data"
    /\ LET r == filter_data(data, where)
       IN IF r.exc.type = "ValueError"
             THEN /\ stderr' = Append(stderr, "Error in filter condition")
                  /\ filtered' = FilterRet(NoExc, <<>>, <<>>)
                  /\ pc' = "output"
                  /\ UNCHANGED exitCode
          ELSE IF r.exc # NoExc
             THEN Uncaught(r.exc) /\ UNCHANGED filtered
          ELSE /\ filtered' = r
               /\ pc' = "output"
               /\ UNCHANGED <<stderr, exitCode>>
    /\ UNCHANGED <<file, data, where, aggregate, cond, aggSpec, refiltered,
                   result, stdout, aggParsed>>

Filter ==
    /\ pc = "filter_data"
    /\ LET r == filter_data(data, where)
       IN IF r.exc.type = "ValueError"
             THEN Fail("Error in filter condition") /\ UNCHANGED filtered
          ELSE IF r.exc # NoExc
             THEN Uncaught(r.exc) /\ UNCHANGED filtered
          ELSE /\ filtered' = r
               /\ pc' = "output"
               /\ UNCHANGED <<stderr, exitCode>>
    /\ UNCHANGED <<file, data, where, aggregate, cond, aggSpec, refiltered,
                   result, stdout, aggParsed>>

Output ==
    /\ pc = "output"
    /\ LET shown == IF Truthy(where) THEN filtered.rows ELSE data
       IN IF Truthy(aggregate)
             THEN LET r == aggregate_data(shown, aggregate)
                  IN /\ aggParsed' = TRUE
                     /\ IF r.exc.type = "ValueError"
                           THEN Fail("Error in aggregation") /\ UNCHANGED <<result, stdout>>
                        ELSE IF r.exc # NoExc
                           THEN Uncaught(r.exc) /\ UNCHANGED <<result, stdout>>
                        ELSE /\ result' = r
                             /\ stdout' = Append(stdout, IF r.rows # <<>> THEN "table"
                                                         ELSE "No data to aggregate")
                             /\ exitCode' = 0
                             /\ pc' = "exit"
                             /\ UNCHANGED stderr
          ELSE /\ stdout' = Append(stdout, IF shown # <<>> THEN "table"
                                           ELSE "No data matches the filter condition")
               /\ exitCode' = 0
               /\ pc' = "exit"
               /\ UNCHANGED <<result, stderr, aggParsed>>
    /\ UNCHANGED <<file, data, where, aggregate, cond, aggSpec, filtered, refiltered>>

Next == ReadCsv \/ Filter \/ Output

Spec == Init /\ [][Next]_vars

-----------------------------------------------------------------------------
(* Properties of the condition parser (SpecParse). *)

\* the operators in the order the specification gives
OperatorOrder == <<">", "<", "=">>

ConditionError(e) == Exc("ValueError", "Invalid condition format", e)

\* C2, as stated: the first operator of the order that occurs in the
\* expression decides alone; the expression is accepted when that operator
\* occurs exactly once and rejected, with a format error naming it, when no
\* operator occurs or when that operator occurs more than once.
C2_FirstFoundOperatorDecides ==
    pc = "parsed_where" =>
      LET e == where.s
          found == {i \in 1..3 : Contains(e, OperatorOrder[i])}
      IN IF found = {} THEN cond.exc = ConditionError(e)
         ELSE LET f == OperatorOrder[CHOOSE i \in found : \A j \in found : i <= j]
              IN IF Count(e, f) = 1 THEN cond.exc = NoExc /\ cond.op = f
                 ELSE cond.exc = ConditionError(e)

\* C2, amended: the operators are tried in the order ">", "<", "="; an
\* operator that occurs more than once is passed over and the next one is
\* tried; the expression is accepted with the first operator of that order
\* that occurs exactly once, and rejected, with a format error naming the
\* expression, only when no operator occurs exactly once.
C2_FirstOperatorOccurringOnceDecides ==
    pc = "parsed_where" =>
      LET e == where.s
          once == {i \in 1..3 : Count(e, OperatorOrder[i]) = 1}
      IN IF once = {} THEN cond.exc = ConditionError(e)
         ELSE /\ cond.exc = NoExc
              /\ cond.op = OperatorOrder[CHOOSE i \in once : \A j \in once : i <= j]

\* an expression whose first-found operator is repeated has been accepted on
\* a later operator
C2_Witness ==
    /\ pc = "parsed_where"
    /\ Count(where.s, ">") = 2
    /\ cond.exc = NoExc
    /\ cond.op = "="

\* the text after the operator of a returned condition
RightHandText ==
    SubSeq(where.s, Len(cond.column) + 2, Len(where.s))

\* the expression is the column, the operator and the right-hand text
SplitsInTwo ==
    /\ Len(cond.column) < Len(where.s)
    /\ SubSeq(where.s, 1, Len(cond.column)) = cond.column
    /\ where.s[Len(cond.column) + 1] = cond.op
    /\ Count(where.s, cond.op) = 1

\* C9, as stated: a returned condition comes from an expression split by its
\* operator into exactly two non-empty parts; the column is the left-hand
\* part verbatim and is never empty, and the right-hand text is never empty.
C9_ConditionPartsNonEmpty ==
    (pc = "parsed_where" /\ cond.exc = NoExc) =>
      /\ SplitsInTwo
      /\ cond.column # <<>>
      /\ RightHandText # <<>>

\* C9, amended: a returned condition comes from an expression split by its
\* operator, which occurs exactly once, into exactly two parts, either of
\* which may be empty; the column is the left-hand part verbatim, blanks
\* included, and the value is the empty string exactly when the right-hand
\* part is empty.
C9_ConditionSplitsInTwo ==
    (pc = "parsed_where" /\ cond.exc = NoExc) =>
      /\ SplitsInTwo
      /\ (cond.value = PyStr(<<>>)) <=> (RightHandText = <<>>)
      /\ cond.value.t = "str" => cond.value.s = RightHandText

\* a condition with an empty column and an empty right-hand text is returned
C9_Witness ==
    /\ pc = "parsed_where"
    /\ cond.exc = NoExc
    /\ cond.column = <<>>
    /\ cond.value = PyStr(<<>>)
    /\ Len(where.s) = 1

-----------------------------------------------------------------------------
(* Properties of the aggregate-spec parser (SpecParse). *)

\* C8, as stated: an expression with no "=" or with more than one "=" raises
\* the format error naming the expression; an expression with exactly one "="
\* is accepted when its function is avg, min or max and otherwise raises the
\* unsupported-function error naming the function.
C8_AggregateFormatErrors ==
    pc = "parsed_aggregate" =>
      LET e == aggregate.s
          i == CHOOSE i \in 1..Len(e) : e[i] = "="
          func == SubSeq(e, i + 1, Len(e))
      IN IF Count(e, "=") # 1
            THEN aggSpec.exc = Exc("ValueError", "Invalid aggregate format", e)
         ELSE IF func \in {<<"a", "v", "g">>, <<"m", "i", "n">>, <<"m", "a", "x">>}
            THEN aggSpec = AggRet(NoExc, SubSeq(e, 1, i - 1), func)
         ELSE aggSpec.exc = Exc("ValueError", "Unsupported aggregate function", func)

-----------------------------------------------------------------------------
(* Properties of filter_data (SpecFilter). *)

\* the condition of the call, parsed
Parsed == parse_where_condition(where.s)

WellFormed == Truthy(where) /\ Parsed.exc = NoExc

ColumnInEveryRow == \A i \in 1..Len(data) : Parsed.column \in DOMAIN data[i]

\* the comparison of C1 between a coerced cell value and the parsed value
Satisfies(v) ==
    CASE Parsed.op = ">" -> Comparable(v, Parsed.value) /\ PyLess(Parsed.value, v)
      [] Parsed.op = "<" -> Comparable(v, Parsed.value) /\ PyLess(v, Parsed.value)
      [] Parsed.op = "=" -> IF Parsed.value.t = "str"
                               THEN PyToStr(v) = Parsed.value.s
                               ELSE IsNum(v) /\ v.num * Parsed.value.den
                                                  = Parsed.value.num * v.den

SatisfyingRow(row) == Satisfies(CoerceCell(row[Parsed.column]))

\* C1, as stated: for a well-formed condition whose column is in every row,
\* filter_data returns, and what it returns is the input's rows whose coerced
\* cell value satisfies the comparison, in the input's order.
C1_FilterSelectsSatisfyingRows ==
    (pc = "filtered" /\ WellFormed /\ ColumnInEveryRow) =>
      /\ filtered.exc = NoExc
      /\ filtered.rows = SelectSeq(data, SatisfyingRow)

\* C6: when filter_data succeeds on a table, filter_data on its result with
\* the same condition succeeds and returns the same rows in the same order.
C6_FilterIdempotent ==
    pc = "refiltered" =>
      /\ refiltered.exc = NoExc
      /\ refiltered.rows = filtered.rows

\* a filter that dropped some rows and kept two has been applied again
C6_Witness ==
    /\ pc = "refiltered"
    /\ Truthy(where)
    /\ Len(filtered.rows) = 2
    /\ Len(data) = 3

\* the coercion C7 describes: a str with "." is parsed as a float, any other
\* str as an int, and a failed parse or a cell that is no str is left as it is
Described(cell) == IF cell.t = "str" THEN CoerceText(cell.s) ELSE cell

\* C7, as stated: the value filter_data compares for a visited row is the
\* described coercion of the row's cell; in particular a cell that is not a
\* string is compared with its original value.
C7_CoercionKeepsNonStrings ==
    pc = "filtered" =>
      \A i \in 1..Len(filtered.coerced) :
        filtered.coerced[i] = Described(data[i][Parsed.column])

\* C10, as stated: on string cells filter_data returns a row set or fails
\* with the condition format error or the key-lookup failure, and in no
\* other way.
C10_FilterFailsOnlyAsDeclared ==
    (pc = "filtered" /\ \A i \in 1..Len(data) :
                          \A c \in DOMAIN data[i] : data[i][c].t = "str") =>
      \/ filtered.exc = NoExc
      \/ filtered.exc = ConditionError(where.s)
      \/ filtered.exc.type = "KeyError"

-----------------------------------------------------------------------------
(* Properties of aggregate_data (SpecAggregate). *)

\* the aggregate spec of the call, parsed
Requested == parse_aggregate(aggregate.s)

ValidSpec == Truthy(aggregate) /\ Requested.exc = NoExc

\* C4: with a valid spec whose column the rows have, a value of that column
\* that is no number in any one row, whichever, makes aggregate_data raise
\* the non-numeric-column error naming the column, with no result.
C4_NonNumericIsFatal ==
    (/\ pc = "aggregated" /\ ValidSpec
     /\ \A i \in 1..Len(data) : Requested.column \in DOMAIN data[i]
     /\ \E i \in 1..Len(data) : ~NumericCell(data[i][Requested.column])) =>
      /\ result.exc = Exc("ValueError", "Cannot aggregate non-numeric column",
                          Requested.column)
      /\ result.rows = <<>>

\* three rows of which only the last is non-numeric have been aggregated
C4_Witness ==
    /\ pc = "aggregated" /\ ValidSpec
    /\ Len(data) = 3
    /\ Requested.column \in DOMAIN data[1]
    /\ NumericCell(data[1][Requested.column])
    /\ NumericCell(data[2][Requested.column])
    /\ ~NumericCell(data[3][Requested.column])
    /\ result.exc.type = "ValueError"

\* C5: with no aggregate string the result set is empty; with a valid spec
\* whose column is numeric in every row the result set is empty, without
\* error, for an empty row set, and otherwise is one row with one key, the
\* requested function's name.
C5_AggregateResultShape ==
    pc = "aggregated" =>
      /\ ~Truthy(aggregate) => result = AggregateRet(NoExc, <<>>)
      /\ (/\ ValidSpec
          /\ \A i \in 1..Len(data) :
               /\ Requested.column \in DOMAIN data[i]
               /\ NumericCell(data[i][Requested.column])) =>
           /\ result.exc = NoExc
           /\ IF data = <<>> THEN result.rows = <<>>
              ELSE /\ Len(result.rows) = 1
                   /\ DOMAIN result.rows[1] = {Requested.func}

\* the minimum of two numeric rows has been computed
C5_Witness ==
    /\ pc = "aggregated" /\ ValidSpec
    /\ Requested.func = <<"m", "i", "n">>
    /\ Len(data) = 2
    /\ Len(result.rows) = 1

-----------------------------------------------------------------------------
(* Properties of main (Spec). *)

\* the errors C3 names: the file is not found, the condition does not parse,
\* the aggregate step raises one of its errors
NamedError ==
    \/ file.state = "missing"
    \/ /\ file.state = "exists"
       /\ Truthy(where) /\ parse_where_condition(where.s).exc # NoExc
    \/ /\ file.state = "exists" /\ aggParsed
       /\ aggregate_data(IF Truthy(where) THEN filtered.rows ELSE data,
                         aggregate).exc.type = "ValueError"

ErrorExit == stderr # <<>> /\ stdout = <<>> /\ exitCode # 0

NormalExit == stderr = <<>> /\ stdout # <<>> /\ exitCode = 0

\* C3, as stated: a run ends with a message on the diagnostic stream,
\* nothing on standard output and a non-zero status when one of the named
\* errors occurred, and otherwise with output on standard output and status
\* zero; a run that ends on a filter error never parsed the aggregate.
C3_MainEndsInOneOfTwoWays ==
    pc = "exit" =>
      /\ IF NamedError THEN ErrorExit ELSE NormalExit
      /\ stderr = <<"Error in filter condition">> => ~aggParsed

\* what filter_data makes of the file's rows
FilterOfFile == filter_data(file.rows, where)

\* C3, amended: a run whose command line parses ends with a message or a
\* traceback on the diagnostic stream, nothing on standard output and a
\* non-zero status when the read fails (file not found or any other read
\* error), when filter_data raises (the format error, or a key-lookup or type
\* error that main does not catch) or when aggregate_data raises; otherwise it
\* ends with output on standard output and status zero.  The steps run in the
\* order read, filter, aggregate: a run in which filter_data raises reports
\* that and never parses the aggregate expression.
C3_MainEndsInOneOfTwoWaysAmended ==
    pc = "exit" =>
      /\ IF \/ file.state # "exists"
            \/ FilterOfFile.exc # NoExc
            \/ aggregate_data(FilterOfFile.rows, aggregate).exc # NoExc
            THEN ErrorExit ELSE NormalExit
      /\ (file.state = "exists" /\ FilterOfFile.exc # NoExc) =>
           /\ ~aggParsed
           /\ stderr = <<IF FilterOfFile.exc.type = "ValueError"
                            THEN "Error in filter condition"
                            ELSE "Traceback " \o FilterOfFile.exc.type>>

\* a run with a malformed condition and a malformed aggregate expression has
\* ended on the filter error
C3_Witness ==
    /\ pc = "exit"
    /\ stderr = <<"Error in filter condition">>
    /\ Truthy(aggregate)
    /\ parse_aggregate(aggregate.s).exc # NoExc

====
